---- MODULE Spec2Model ----
(***************************************************************************)
(* A model of OpticalRays.py: one OpticalRay traced through a sequence of  *)
(* thin lenses.                                                            *)
(*                                                                         *)
(* Numbers.  The program computes in IEEE-754 doubles (numpy float64).     *)
(* The model computes exactly, over the rationals extended with the three  *)
(* IEEE special values: a number is a record [n, d] in lowest terms with   *)
(* d >= 0, where d = 0 stands for +inf (n = 1), -inf (n = -1) and NaN      *)
(* (n = 0).  Rounding error and the sign of zero are not modelled.         *)
(*                                                                         *)
(* Angles.  An angle theta is the record [t, k] with                       *)
(* theta = arctan(t) + k*pi: t is its tangent and k the number of half     *)
(* turns that separate it from the principal value.  np.tan forgets k and  *)
(* np.arctan always answers with k = 0, so arctan(tan(theta)) = theta only *)
(* for the angles in the principal range.  Only angles with a rational     *)
(* tangent are representable.  At the float nearest to pi/2 np.tan returns *)
(* a finite number of magnitude 1.6e16; the model writes the infinity that *)
(* number approximates.  Such an angle arises from a lens of focal length  *)
(* zero; the initial angles drawn in Init all have a finite tangent.       *)
(***************************************************************************)
EXTENDS Integers, Sequences, FiniteSets, TLC

VARIABLES angles, paths, path_vertices, lenses, raised

vars == <<angles, paths, path_vertices, lenses, raised>>

(***************************************************************************)
(* Bounds and inputs                                                       *)
(***************************************************************************)
MaxLenses == 3

FocalLengths == {-2, 0, 3}

Locations == {0, 1, 3}

ThinLens == [f : FocalLengths, location : Locations]

(***************************************************************************)
(* float64 arithmetic                                                      *)
(***************************************************************************)
Abs(i) == IF i < 0 THEN -i ELSE i

Sign(i) == IF i < 0 THEN -1 ELSE IF i = 0 THEN 0 ELSE 1

RECURSIVE GCD(_, _)
GCD(a, b) == IF b = 0 THEN a ELSE GCD(b, a % b)

\* The operators below bind their arguments once (x \in {a}) before they use
\* them, so that an argument is evaluated one time however often it is read.
Strict(S) == CHOOSE r \in S : TRUE

Norm(n, d) ==
    Strict({IF y = 0 THEN [n |-> Sign(x), d |-> 0]
            ELSE LET g == GCD(Abs(x), Abs(y))
                 IN  [n |-> (Sign(y) * x) \div g, d |-> Abs(y) \div g]
            : x \in {n}, y \in {d}})

Q(i) == [n |-> i, d |-> 1]

NaN == [n |-> 0, d |-> 0]

IsNaN(a) == a.d = 0 /\ a.n = 0

IsFinite(a) == a.d # 0

\* the float64 comparison a == b: false as soon as one side is NaN
Feq(a, b) == ~IsNaN(a) /\ ~IsNaN(b) /\ a = b

Neg(a) == Strict({[n |-> -x.n, d |-> x.d] : x \in {a}})

Add(a, b) ==
    Strict({IF x.d = 0 /\ y.d = 0
            THEN (IF x = y THEN x ELSE NaN)
            ELSE Norm(x.n * y.d + y.n * x.d, x.d * y.d)
            : x \in {a}, y \in {b}})

Sub(a, b) == Add(a, Neg(b))

Mul(a, b) == Strict({Norm(x.n * y.n, x.d * y.d) : x \in {a}, y \in {b}})

\* a slip of the operator: the product where the quotient is meant
true_divide_as_product(a, b) == Mul(a, b)

\* numpy true division: x/0 is +-inf, 0/0 is NaN, x/inf is 0
true_divide(a, b) ==
    Strict({LET reciprocal == IF y.n = 0 /\ y.d # 0 THEN [n |-> 1, d |-> 0]
                              ELSE Norm(Sign(y.n) * y.d, Abs(y.n))
            IN  Mul(a, reciprocal)
            : y \in {b}})

\* the division of two Python floats, which raises ZeroDivisionError
py_true_divide_raises(a, b) == b = Q(0)

\* the numerator is a numpy float64, so a zero divisor gives a RuntimeWarning
\* and a non-finite quotient, never a ZeroDivisionError
true_divide_raises(a, b) == FALSE

np_tan(angle) == angle.t

np_arctan(v) == [t |-> v, k |-> 0]

(***************************************************************************)
(* OpticalRays.py                                                          *)
(***************************************************************************)
PlaceholderX == 100

Last(s) == s[Len(s)]

\* the difference taken the other way round
calculate_outgoing_angle_swapped(incoming_angle, y, f) ==
    LET y2 == Mul(f, np_tan(incoming_angle))
    IN  np_arctan(true_divide(Sub(y, y2), f))

\* f + tan(angle) where f * tan(angle) is meant
calculate_outgoing_angle_sum(incoming_angle, y, f) ==
    LET y2 == Add(f, np_tan(incoming_angle))
    IN  np_arctan(true_divide(Sub(y2, y), f))

calculate_outgoing_angle(incoming_angle, y, f) ==
    LET y2 == Mul(f, np_tan(incoming_angle))
    IN  np_arctan(true_divide(Sub(y2, y), f))

\* module-level helper; OpticalRay does not call it
calculate_ray_path(x, y, angle) == Add(Mul(np_tan(angle), Neg(x)), y)

\* b = y0 + x0 * m, a sign slip
calculate_linear_equation_plus(angle, origin) ==
    <<np_tan(angle), Add(origin[2], Mul(origin[1], np_tan(angle)))>>

\* returns <<slope, intercept>>
calculate_linear_equation(angle, origin) ==
    LET intercept == Sub(origin[2], Mul(origin[1], np_tan(angle)))
        slope == np_tan(angle)
    IN  <<slope, intercept>>

\* the placeholder written over the last vertex instead of appended
add_placeholder_vertex_overwrite(vertices, ps, x_location) ==
    [vertices EXCEPT ![Len(vertices)] =
        <<Q(PlaceholderX), Add(Mul(Last(ps)[1], Q(PlaceholderX)), Last(ps)[2])>>]

\* the placeholder put at x_location, as the callers' arguments suggest
add_placeholder_vertex_at(vertices, ps, x_location) ==
    Append(vertices, <<x_location, Add(Mul(Last(ps)[1], x_location), Last(ps)[2])>>)

\* the vertices after the call; x_location is not read
add_placeholder_vertex(vertices, ps, x_location) ==
    Append(vertices,
           <<Q(PlaceholderX), Add(Mul(Last(ps)[1], Q(PlaceholderX)), Last(ps)[2])>>)

Origins == {<<Q(-1), Q(-1)>>, <<Q(-10), Q(0)>>, <<Q(-1), Q(1)>>}

\* 0, arctan(1), -arctan(1), arctan(1/2), pi + arctan(1), pi
OriginAngles ==
    {[t |-> Q(0), k |-> 0], [t |-> Q(1), k |-> 0], [t |-> Q(-1), k |-> 0],
     [t |-> Norm(1, 2), k |-> 0], [t |-> Q(1), k |-> 1], [t |-> Q(0), k |-> 1]}

\* OpticalRay.__init__(origin_point, origin_angle)
Init ==
    \E origin_point \in Origins, origin_angle \in OriginAngles :
        LET p0 == <<calculate_linear_equation(origin_angle, origin_point)>>
        IN  /\ angles = <<origin_angle>>
            /\ paths = p0
            /\ path_vertices =
                   add_placeholder_vertex(<<origin_point>>, p0,
                                          Add(origin_point[1], Q(10)))
            /\ lenses = <<>>
            /\ raised = FALSE

\* index 0 where index -1 is meant
set_first_vertex(vertices, p) == [vertices EXCEPT ![1] = p]

\* self.path_vertices[-1, :] = p
set_last_vertex(vertices, p) == [vertices EXCEPT ![Len(vertices)] = p]

\* the first segment read where the most recent one is meant
incident_at_first(ps, new_lens) ==
    Add(Mul(ps[1][1], Q(new_lens.location)), ps[1][2])

\* the height at which the most recent segment meets the lens plane
incident_at(ps, new_lens) ==
    Add(Mul(Last(ps)[1], Q(new_lens.location)), Last(ps)[2])

\* the lens dropped instead of kept
lenses_keep(ls, new_lens) == ls

\* self.lenses.append(new_lens)
lenses_append(ls, new_lens) == Append(ls, new_lens)

\* OpticalRay.add_lens(new_lens)
add_lens(new_lens) ==
    LET incident_y == incident_at(paths, new_lens)
        outgoing_angle ==
            calculate_outgoing_angle(Last(angles), incident_y, Q(new_lens.f))
        outgoing ==
            calculate_linear_equation(outgoing_angle,
                                      <<Q(new_lens.location), incident_y>>)
        new_paths == Append(paths, outgoing)
    IN  /\ Len(lenses) < MaxLenses
        /\ IF true_divide_raises(
                  Sub(Mul(Q(new_lens.f), np_tan(Last(angles))), incident_y),
                  Q(new_lens.f))
           THEN /\ raised' = TRUE
                /\ UNCHANGED <<angles, paths, path_vertices, lenses>>
           ELSE /\ lenses' = lenses_append(lenses, new_lens)
                /\ angles' = Append(angles, outgoing_angle)
                /\ paths' = new_paths
                /\ path_vertices' =
                       add_placeholder_vertex(
                           set_last_vertex(path_vertices,
                                           <<Q(new_lens.location), incident_y>>),
                           new_paths,
                           Add(Q(new_lens.location), Q(10)))
                /\ UNCHANGED raised

Next == \E new_lens \in ThinLens : add_lens(new_lens)

Spec == Init /\ [][Next]_vars

(***************************************************************************)
(* Vocabulary of the properties                                            *)
(***************************************************************************)
\* seg = <<m, b>> evaluated at x
Eval(seg, x) == Add(Mul(seg[1], x), seg[2])

OnLine(p, seg) == Feq(p[2], Eval(seg, p[1]))

\* the first k lenses applied all have a nonzero focal length
NonzeroUpTo(k) == \A j \in 1..k : lenses[j].f # 0

NonzeroHistory == NonzeroUpTo(Len(lenses))

\* C1: angles, paths and path_vertices stay index-aligned: len(angles) =
\* len(paths) = len(path_vertices) - 1, and len(angles) is the number of
\* lenses applied plus one.
C1_Lengths ==
    /\ Len(angles) = Len(paths)
    /\ Len(paths) = Len(path_vertices) - 1
    /\ Len(angles) = Len(lenses) + 1

C1_Witness == Len(lenses) >= 2 /\ Len(path_vertices) = Len(lenses) + 2

\* C2: with nonzero focal lengths only, the origin lies on paths[0], every
\* lens vertex lies on its incoming and on its outgoing segment, and the
\* trailing placeholder lies on the last segment.
C2_VerticesOnSegments ==
    NonzeroHistory =>
        /\ OnLine(path_vertices[1], paths[1])
        /\ \A i \in 2..(Len(path_vertices) - 1) :
               /\ OnLine(path_vertices[i], paths[i - 1])
               /\ OnLine(path_vertices[i], paths[i])
        /\ OnLine(Last(path_vertices), Last(paths))

C2_Witness ==
    /\ NonzeroHistory
    /\ Len(lenses) >= 2
    /\ paths[2] # paths[1]
    /\ paths[3] # paths[2]

ZeroAngle == [t |-> Q(0), k |-> 0]

\* the k-th lens applied sends paths[k+1] through the point
\* (location + f, f * tan(angles[k])) of its focal plane
ThroughFocalPoint(k) ==
    Feq(Eval(paths[k + 1], Q(lenses[k].location + lenses[k].f)),
        Mul(Q(lenses[k].f), np_tan(angles[k])))

\* C3 as stated: for a lens of nonzero focal length and ANY ray state, the
\* appended segment evaluated at x = location + f yields f * tan(incoming
\* angle).
C3_Original ==
    \A k \in 1..Len(lenses) : lenses[k].f # 0 => ThroughFocalPoint(k)

\* C3 as amended: for a lens of nonzero focal length applied to a ray that
\* has met no lens of focal length zero before, the appended segment
\* evaluated at x = location + f yields f * tan(incoming angle), whatever
\* the origin and the height of incidence.
C3_FocalPlane ==
    \A k \in 1..Len(lenses) : NonzeroUpTo(k) => ThroughFocalPoint(k)

C3_Witness ==
    /\ Len(lenses) >= 2
    /\ NonzeroHistory
    /\ np_tan(angles[1]) = Q(0)
    /\ path_vertices[2][2] # Q(0)
    /\ Eval(paths[2], Q(lenses[1].location + lenses[1].f)) = Q(0)
    /\ np_tan(angles[2]) # Q(0)

\* the k-th lens has a nonzero focal length and is met at y = 0
ThroughCentre(k) ==
    lenses[k].f # 0 /\ Feq(path_vertices[k + 1][2], Q(0))

\* C4 as stated: for ANY initial angle, a ray that meets a lens of nonzero
\* focal length at y = 0 leaves with the angle and the segment it came with.
C4_Original ==
    \A k \in 1..Len(lenses) :
        ThroughCentre(k) => angles[k + 1] = angles[k] /\ paths[k + 1] = paths[k]

\* C4 as amended: a ray that meets a lens of nonzero focal length at y = 0
\* keeps its segment, and leaves with the incoming angle reduced to the
\* principal range (same tangent, no half turn): with the incoming angle
\* itself when that lies in the principal range.
C4_Undeflected ==
    \A k \in 1..Len(lenses) :
        ThroughCentre(k) =>
            /\ paths[k + 1] = paths[k]
            /\ angles[k + 1] = [t |-> angles[k].t, k |-> 0]
            /\ (angles[k].k = 0 => angles[k + 1] = angles[k])

C4_Witness ==
    /\ Len(lenses) >= 1
    /\ ThroughCentre(1)
    /\ angles[1].k = 0
    /\ angles[1].t # Q(0)
    /\ angles[2] = angles[1]

\* C5: with nonzero focal lengths only, the state is the closed-form chain:
\* paths[0] is the line through the origin at the initial angle and, for the
\* k-th lens, y_k = m_(k-1)*loc_k + b_(k-1), angles[k] =
\* atan((f_k*tan(angles[k-1]) - y_k)/f_k), paths[k] = (tan(angles[k]),
\* y_k - tan(angles[k])*loc_k), path_vertices[k] = (loc_k, y_k).
C5_ClosedForm ==
    NonzeroHistory =>
        /\ path_vertices[1] \in Origins
        /\ angles[1] \in OriginAngles
        /\ paths[1] = <<angles[1].t,
                        Sub(path_vertices[1][2], Mul(path_vertices[1][1], angles[1].t))>>
        /\ \A k \in 1..Len(lenses) :
               LET loc == Q(lenses[k].location)
                   f == Q(lenses[k].f)
                   y == Add(Mul(paths[k][1], loc), paths[k][2])
                   m == Mul(Sub(Mul(f, angles[k].t), y), Norm(1, lenses[k].f))
               IN  /\ angles[k + 1] = [t |-> m, k |-> 0]
                   /\ paths[k + 1] = <<m, Sub(y, Mul(m, loc))>>
                   /\ path_vertices[k + 1] = <<loc, y>>

C5_Witness ==
    /\ Len(lenses) >= 2
    /\ NonzeroHistory
    /\ lenses[1] = [f |-> 3, location |-> 1]
    /\ lenses[2] = [f |-> -2, location |-> 3]
    /\ path_vertices[1] = <<Q(-1), Q(-1)>>
    /\ angles[1] = [t |-> Norm(1, 2), k |-> 0]

\* C6 as stated: the trailing placeholder is 10 units past the most recent
\* interaction (origin.x + 10 after construction, lens.location + 10 after
\* add_lens), with y read off the last segment there.
C6_Original ==
    LET x == IF lenses = <<>> THEN Add(path_vertices[1][1], Q(10))
             ELSE Q(Last(lenses).location + 10)
    IN  Last(path_vertices) = <<x, Eval(Last(paths), x)>>

\* C6 as amended: the trailing placeholder is always at x = 100, whatever the
\* origin and the lens location, with y read off the last segment at x = 100.
C6_PlaceholderAt100 ==
    Last(path_vertices) =
        <<Q(PlaceholderX), Eval(Last(paths), Q(PlaceholderX))>>

C6_Witness ==
    /\ Len(lenses) >= 1
    /\ Last(path_vertices)[1] # Q(Last(lenses).location + 10)
    /\ IsFinite(Last(path_vertices)[2])
    /\ Last(path_vertices)[2] # Q(0)

\* C7: a ray created on the axis (origin y = 0, angle 0) stays on the axis
\* through lenses of nonzero focal length: every segment is (0, 0), every
\* angle 0, every vertex has y = 0, and the k-th lens vertex sits at the
\* k-th lens's location.
C7_OnAxis ==
    (path_vertices[1][2] = Q(0) /\ angles[1] = ZeroAngle /\ NonzeroHistory) =>
        /\ \A i \in 1..Len(paths) : paths[i] = <<Q(0), Q(0)>>
        /\ \A i \in 1..Len(angles) : angles[i] = ZeroAngle
        /\ \A i \in 1..Len(path_vertices) : path_vertices[i][2] = Q(0)
        /\ \A k \in 1..Len(lenses) :
               path_vertices[k + 1][1] = Q(lenses[k].location)

C7_Witness ==
    /\ path_vertices[1][2] = Q(0)
    /\ angles[1] = ZeroAngle
    /\ NonzeroHistory
    /\ Len(lenses) >= 2
    /\ lenses[1].location # lenses[2].location
    /\ lenses[1].f # lenses[2].f

\* one more entry in each of angles, paths and path_vertices, and no error
GrowsByOne ==
    /\ raised' = FALSE
    /\ Len(angles') = Len(angles) + 1
    /\ Len(paths') = Len(paths) + 1
    /\ Len(path_vertices') = Len(path_vertices) + 1

\* C8: add_lens never raises and is always enabled: whatever the lens (placed
\* before, at or after the last true vertex, focal length zero included) the
\* call grows angles, paths and path_vertices by one entry each, and the ray
\* can take a further lens (up to the bound of the model).
C8_NoError ==
    /\ [](raised = FALSE)
    /\ [](Len(lenses) < MaxLenses => \A l \in ThinLens : ENABLED add_lens(l))
    /\ [][GrowsByOne]_vars

C8_Witness ==
    /\ raised = FALSE
    /\ Len(lenses) >= 3
    /\ lenses[1].f = 0
    /\ lenses[2].location < lenses[1].location
    /\ lenses[3].location = lenses[2].location
    /\ Len(path_vertices) = 5

\* C9: add_lens is append-only: the n angles and segments and the first n
\* vertices it finds are left as they are, no sequence gets shorter, and the
\* one entry it changes is the old placeholder path_vertices[n], which becomes
\* (lens.location, incident_y).
C9_AppendOnly ==
    [][LET n == Len(angles)
           loc == Q(Last(lenses').location)
       IN  /\ Len(angles') >= n
           /\ Len(paths') >= Len(paths)
           /\ Len(path_vertices') >= Len(path_vertices)
           /\ \A i \in 1..n :
                  /\ angles'[i] = angles[i]
                  /\ paths'[i] = paths[i]
                  /\ path_vertices'[i] = path_vertices[i]
           /\ path_vertices'[n + 1] = <<loc, Eval(Last(paths), loc)>>]_vars

C9_Witness ==
    /\ Len(lenses) >= 2
    /\ path_vertices[2][1] = Q(lenses[1].location)
    /\ path_vertices[3][1] = Q(lenses[2].location)
    /\ path_vertices[3][1] # Q(PlaceholderX)
    /\ paths[2] # paths[3]

\* C10 as stated: the ray holds no lens that was passed to add_lens.
C10_Original == lenses = <<>>

\* C10 as amended: add_lens computes from the lens's focal length and location
\* alone, and it also appends the lens itself to self.lenses: after n calls
\* the ray holds the n lenses it was given, in the order of application (the
\* k-th of them is the lens whose location is the x of the k-th lens vertex).
C10_LensesRetained ==
    /\ Len(lenses) = Len(angles) - 1
    /\ \A k \in 1..Len(lenses) :
           /\ lenses[k] \in ThinLens
           /\ path_vertices[k + 1][1] = Q(lenses[k].location)

C10_Witness ==
    /\ Len(lenses) >= 2
    /\ lenses[1] # lenses[2]
    /\ Len(angles) = 3

====
